---- MODULE Spec2Model ----
(***************************************************************************)
(* Model of the webhook dispatcher and the API-key gateway of              *)
(* src/src/lib/webhooks.ts.                                                *)
(*                                                                         *)
(* The database (Prisma `db`) is modelled as tables held in variables;     *)
(* every single db.* call is one atomic step, and the code between two     *)
(* awaits runs without interleaving (one JavaScript turn).                 *)
(*                                                                         *)
(* Strings the code inspects character by character (API keys, scopes,     *)
(* signatures) are sequences of one-character strings.  A failing database *)
(* call is a step of its own that rejects the awaiting promise.            *)
(***************************************************************************)
EXTENDS Integers, Sequences, FiniteSets, Bags, TLC

(***************************************************************************)
(* Bounds of the model                                                     *)
(***************************************************************************)
MaxCalls == 2        \* triggerWebhooks invocations in flight at once
MaxDispatches == 2   \* triggerWebhooks invocations in one behaviour
MaxSequential == 11  \* triggerWebhooks invocations made one after the other
MaxKeys == 1         \* API keys created in one behaviour
MaxReqs == 2         \* authenticateApiRequest invocations in one behaviour
MaxScopeLen == 3     \* length of a scope held by a key (hasScope inputs)
MaxRequiredLen == 4  \* length of a required scope (hasScope inputs)
MaxPerInstant == 2   \* usage events per instant (checkRateLimit inputs)
MaxSignatureLen == 5 \* length of a signature presented for verification

Null == "null"      \* null of a string-valued or object-valued field
NullInt == -1       \* null of a number-valued or date-valued field

(***************************************************************************)
(* Program constants                                                       *)
(***************************************************************************)
FailureThreshold == 10
HourMs == 60 * 60 * 1000
API_KEY_PREFIX == <<"i", "p", "_">>
KeyPrefixLen == 12

Orgs == {"o1", "o2"}
WebhookIds == {"w1", "w2", "w3"}
WebhookEvents == {"case.created", "form.created"}
Calls == 1 .. MaxCalls

\* HTTP status codes a subscriber may answer with.
StatusCodes == {200, 300}

\* Failure counters the registered webhooks of tenant o1 start from; the
\* webhook of tenant o2 starts from 0.
StartCounts == {0, 9}

VARIABLES
  now,              \* the wall clock, in milliseconds (new Date(), Date.now())
  webhook,          \* table db.webhook
  webhookDelivery,  \* table db.webhookDelivery: a bag of rows
  call,             \* one triggerWebhooks invocation per slot
  task,             \* the delivery promise of each (call, webhook)
  posts,            \* number of HTTP POSTs sent to each webhook URL
  updates,          \* number of statistics updates applied to each webhook
  dispatched,       \* number of triggerWebhooks invocations so far
  apiKey,           \* table db.apiKey, by id
  auditLog,         \* table db.auditLog: a bag of rows
  req,              \* one authenticateApiRequest invocation per slot
  issued,           \* the values createApiKey has returned to its callers
  rl,               \* the last checkRateLimit call made on its own
  hs,               \* the last hasScope call made on its own
  vs,               \* the last verifyWebhookSignature call made on its own
  test,             \* the testWebhook invocation
  aborted           \* the createApiKey and revokeApiKey calls that raised

dispatcherVars ==
  <<webhook, webhookDelivery, call, task, posts, updates, dispatched>>
gatewayVars == <<apiKey, auditLog, req, issued>>
vars == <<now, webhook, webhookDelivery, call, task, posts, updates, dispatched,
          apiKey, auditLog, req, issued, rl, hs, vs, test, aborted>>

(***************************************************************************)
(* Envelopes and signatures                                                *)
(*                                                                         *)
(* A serialized envelope and a secret are byte strings: sequences of       *)
(* numbers.  A signature is a string of hexadecimal digits.                *)
(***************************************************************************)
SignatureLen == 4     \* hexadecimal digits of a digest
HexDigits == <<"0", "1", "2", "3", "4", "5", "6", "7",
               "8", "9", "a", "b", "c", "d", "e", "f">>

\* .digest('hex'): the digest as SignatureLen hexadecimal digits.
RECURSIVE ToHex(_, _)
ToHex(n, width) ==
  IF width = 0 THEN <<>>
  ELSE Append(ToHex(n \div 16, width - 1), HexDigits[(n % 16) + 1])

\* .update(bytes) on a digest state h: a polynomial digest, which like
\* SHA-256 is a function of every byte.
RECURSIVE DigestBytes(_, _)
DigestBytes(h, bytes) ==
  IF bytes = <<>> THEN h
  ELSE DigestBytes((h * 31 + Head(bytes)) % 65521, Tail(bytes))

\* generateSignature with the key left out of the digest.
GenerateSignatureUnkeyed(payload, secret) ==
  ToHex(DigestBytes(7, payload), SignatureLen)

\* generateSignature(payload, secret): the keyed digest of the payload.
GenerateSignature(payload, secret) ==
  ToHex(DigestBytes(DigestBytes(7, secret), payload), SignatureLen)

\* crypto.timingSafeEqual(Buffer.from(a), Buffer.from(b)): throws a
\* RangeError when the two buffers differ in byte length.
TimingSafeEqual(a, b) ==
  IF Len(a) # Len(b) THEN [raised |-> TRUE, value |-> FALSE]
  ELSE [raised |-> FALSE, value |-> a = b]

\* verifyWebhookSignature(payload, signature, secret)
VerifyWebhookSignature(payload, signature, secret) ==
  TimingSafeEqual(signature, GenerateSignature(payload, secret))

EventCode(ev) == CASE ev = "case.created" -> 1 [] ev = "form.created" -> 2
OrgCode(org) == CASE org = "o1" -> 1 [] org = "o2" -> 2

\* JSON.stringify(payload) of the WebhookPayload envelope.
JsonStringify(payload) ==
  <<EventCode(payload.event), payload.timestamp>> \o payload.data
    \o <<OrgCode(payload.organizationId)>>

\* The `data` argument of triggerWebhooks, serialized.
DataInputs == {<<1>>}

\* The secrets createWebhook drew for the registered webhooks.
WebhookSecret == [w \in WebhookIds |->
                    CASE w = "w1" -> <<11>> [] w = "w2" -> <<12>>
                      [] w = "w3" -> <<13>>]

\* The registrations made by createWebhook: owner and subscribed events.
\* Tenant o1 has one webhook for each event, tenant o2 one for case.created.
WebhookOwner == [w \in WebhookIds |-> IF w = "w3" THEN "o2" ELSE "o1"]
WebhookSubscribed ==
  [w \in WebhookIds |->
     IF w = "w2" THEN {"form.created"} ELSE {"case.created"}]

\* result is what the caller gets: "undefined", an "array" of outcomes, or
\* the call has "raised".
IdleCall == [pc |-> "idle", organizationId |-> Null, event |-> Null,
             data |-> <<>>, webhooks |-> {}, payloadString |-> <<>>,
             result |-> Null, outcomes |-> {}]
\* body and signature are those of the POST the delivery promise sent.
IdleTask == [pc |-> "none", body |-> <<>>, signature |-> <<>>,
             success |-> FALSE, statusCode |-> NullInt, error |-> Null]

\* response.ok taking every status below 400 as a success.
ResponseOkBelow400(status) == status >= 200 /\ status <= 399

\* response.ok
ResponseOk(status) == status >= 200 /\ status <= 299

\* The dispatcher before any triggerWebhooks call.
DispatcherInit ==
  /\ \E fc \in {f \in [WebhookIds -> StartCounts] : f["w3"] = 0} :
       webhook = [w \in WebhookIds |->
                    [organizationId |-> WebhookOwner[w],
                     events |-> WebhookSubscribed[w],
                     secret |-> WebhookSecret[w],
                     isActive |-> TRUE,
                     failureCount |-> fc[w],
                     lastDeliveryAt |-> NullInt]]
  /\ webhookDelivery = EmptyBag
  /\ call = [c \in Calls |-> IdleCall]
  /\ task = [c \in Calls |-> [w \in WebhookIds |-> IdleTask]]
  /\ posts = [w \in WebhookIds |-> 0]
  /\ updates = [w \in WebhookIds |-> 0]
  /\ dispatched = 0

\* triggerWebhooks(organizationId, event, data) is invoked, at most `limit`
\* times in a behaviour.
TriggerUpTo(c, org, ev, data, limit) ==
  /\ call[c].pc = "idle"
  /\ \A d \in Calls : d < c => call[d].pc # "idle"
  /\ dispatched < limit
  /\ call' = [call EXCEPT ![c] = [IdleCall EXCEPT !.pc = "resolve",
                                                  !.organizationId = org,
                                                  !.event = ev,
                                                  !.data = data]]
  /\ task' = [task EXCEPT ![c] = [w \in WebhookIds |-> IdleTask]]
  /\ dispatched' = dispatched + 1
  /\ UNCHANGED <<now, webhook, webhookDelivery, posts, updates>>
  /\ UNCHANGED <<gatewayVars, rl, hs, vs, test, aborted>>

\* triggerWebhooks(organizationId, event, data) is invoked.
Trigger(c, org, ev, data) == TriggerUpTo(c, org, ev, data, MaxDispatches)

\* MatchingWebhooks without the isActive condition.
MatchingWebhooksAnyState(org, ev) ==
  {w \in WebhookIds : /\ webhook[w].organizationId = org
                      /\ ev \in webhook[w].events}

\* The where-clause of db.webhook.findMany.
MatchingWebhooks(org, ev) ==
  {w \in WebhookIds : /\ webhook[w].organizationId = org
                      /\ webhook[w].isActive
                      /\ ev \in webhook[w].events}

\* Resolve selecting the active subscribers of the event among the webhooks
\* of every tenant.
ResolveAnyTenant(c) ==
  /\ call[c].pc = "resolve"
  /\ call' = [call EXCEPT ![c].pc = "resolved",
                          ![c].webhooks =
                             {w \in WebhookIds :
                                /\ webhook[w].isActive
                                /\ call[c].event \in webhook[w].events}]
  /\ UNCHANGED <<now, webhook, webhookDelivery, task, posts, updates, dispatched>>
  /\ UNCHANGED <<gatewayVars, rl, hs, vs, test, aborted>>

\* db.webhook.findMany executes in the database.
Resolve(c) ==
  /\ call[c].pc = "resolve"
  /\ call' = [call EXCEPT ![c].pc = "resolved",
                          ![c].webhooks =
                             MatchingWebhooks(call[c].organizationId,
                                              call[c].event)]
  /\ UNCHANGED <<now, webhook, webhookDelivery, task, posts, updates, dispatched>>
  /\ UNCHANGED <<gatewayVars, rl, hs, vs, test, aborted>>

\* The continuation after findMany: return when nothing matches.
ReturnEmpty(c) ==
  /\ call[c].pc = "resolved"
  /\ call[c].webhooks = {}
  /\ call' = [call EXCEPT ![c].pc = "done", ![c].result = "undefined"]
  /\ UNCHANGED <<now, webhook, webhookDelivery, task, posts, updates, dispatched>>
  /\ UNCHANGED <<gatewayVars, rl, hs, vs, test, aborted>>

\* The continuation after findMany: webhooks.map starts every delivery
\* promise, each running up to its fetch, which sends the POST.
StartDeliveries(c) ==
  LET payload == [event |-> call[c].event, timestamp |-> now,
                  data |-> call[c].data,
                  organizationId |-> call[c].organizationId]
      payloadString == JsonStringify(payload)
  IN
  /\ call[c].pc = "resolved"
  /\ call[c].webhooks # {}
  /\ call' = [call EXCEPT ![c].pc = "running",
                          ![c].payloadString = payloadString]
  /\ task' = [task EXCEPT ![c] =
                [w \in WebhookIds |->
                   IF w \in call[c].webhooks
                     THEN [IdleTask EXCEPT
                             !.pc = "fetch",
                             !.body = payloadString,
                             !.signature =
                                GenerateSignature(payloadString,
                                                  webhook[w].secret)]
                     ELSE IdleTask]]
  /\ posts' = [w \in WebhookIds |->
                 IF w \in call[c].webhooks THEN posts[w] + 1 ELSE posts[w]]
  /\ UNCHANGED <<now, webhook, webhookDelivery, updates, dispatched>>
  /\ UNCHANGED <<gatewayVars, rl, hs, vs, test, aborted>>

\* `HTTP ${statusCode}: ${responseBody?.substring(0, 500)}`
HttpError(status) == "HTTP " \o ToString(status)

\* Respond sending the POST once more after a first non-2xx response.
RespondRetriesFailure(c, w, status) ==
  /\ task[c][w].pc = "fetch"
  /\ IF ~ResponseOk(status) /\ task[c][w].statusCode = NullInt
       THEN /\ task' = [task EXCEPT ![c][w].statusCode = status]
            /\ posts' = [posts EXCEPT ![w] = @ + 1]
       ELSE /\ task' = [task EXCEPT ![c][w] =
                          [task[c][w] EXCEPT
                             !.pc = "record",
                             !.success = ResponseOk(status),
                             !.statusCode = status,
                             !.error = IF ResponseOk(status) THEN Null
                                       ELSE HttpError(status)]]
            /\ posts' = posts
  /\ UNCHANGED <<now, webhook, webhookDelivery, call, updates, dispatched>>
  /\ UNCHANGED <<gatewayVars, rl, hs, vs, test, aborted>>

\* fetch settles with an HTTP response.
Respond(c, w, status) ==
  /\ task[c][w].pc = "fetch"
  /\ task' = [task EXCEPT ![c][w] =
                [task[c][w] EXCEPT
                   !.pc = "record",
                   !.success = ResponseOk(status),
                   !.statusCode = status,
                   !.error = IF ResponseOk(status) THEN Null
                             ELSE HttpError(status)]]
  /\ UNCHANGED <<now, webhook, webhookDelivery, call, posts, updates, dispatched>>
  /\ UNCHANGED <<gatewayVars, rl, hs, vs, test, aborted>>

\* TransportFailure with the rejection of fetch left uncaught.
TransportFailureRejects(c, w) ==
  /\ task[c][w].pc = "fetch"
  /\ task' = [task EXCEPT ![c][w].pc = "rejected"]
  /\ UNCHANGED <<now, webhook, webhookDelivery, call, posts, updates, dispatched>>
  /\ UNCHANGED <<gatewayVars, rl, hs, vs, test, aborted>>

\* fetch rejects: transport failure or the 30 second abort.
TransportFailure(c, w) ==
  /\ task[c][w].pc = "fetch"
  /\ task' = [task EXCEPT ![c][w] =
                [task[c][w] EXCEPT !.pc = "record", !.success = FALSE,
                                   !.statusCode = NullInt,
                                   !.error = "err.message"]]
  /\ UNCHANGED <<now, webhook, webhookDelivery, call, posts, updates, dispatched>>
  /\ UNCHANGED <<gatewayVars, rl, hs, vs, test, aborted>>

\* RecordDelivery creating a row for failed deliveries only.
RecordDeliveryFailuresOnly(c, w) ==
  /\ task[c][w].pc = "record"
  /\ webhookDelivery' =
       IF task[c][w].success THEN webhookDelivery
       ELSE webhookDelivery (+)
              SetToBag({[webhookId |-> w, event |-> call[c].event,
                         statusCode |-> task[c][w].statusCode,
                         success |-> task[c][w].success,
                         error |-> task[c][w].error]})
  /\ task' = [task EXCEPT ![c][w].pc = "update"]
  /\ UNCHANGED <<now, webhook, call, posts, updates, dispatched>>
  /\ UNCHANGED <<gatewayVars, rl, hs, vs, test, aborted>>

\* db.webhookDelivery.create
RecordDelivery(c, w) ==
  /\ task[c][w].pc = "record"
  /\ webhookDelivery' =
       webhookDelivery (+)
         SetToBag({[webhookId |-> w, event |-> call[c].event,
                    statusCode |-> task[c][w].statusCode,
                    success |-> task[c][w].success,
                    error |-> task[c][w].error]})
  /\ task' = [task EXCEPT ![c][w].pc = "update"]
  /\ UNCHANGED <<now, webhook, call, posts, updates, dispatched>>
  /\ UNCHANGED <<gatewayVars, rl, hs, vs, test, aborted>>

\* StatsUpdate leaving the counter as it is on success.
StatsUpdateNoReset(row, success, at) ==
  [row EXCEPT !.lastDeliveryAt = at,
              !.failureCount = IF success THEN row.failureCount
                               ELSE row.failureCount + 1]

\* The data of the db.webhook.update of the delivery statistics.
StatsUpdate(row, success, at) ==
  [row EXCEPT !.lastDeliveryAt = at,
              !.failureCount = IF success THEN 0 ELSE row.failureCount + 1]

\* UpdateStats as a read-modify-write: the updates of the same webhook that
\* are pending together read the same row, and the last one written stays.
UpdateStatsLostUpdate(c, w) ==
  /\ task[c][w].pc = "update"
  /\ webhook' = [webhook EXCEPT ![w] =
                   StatsUpdate(webhook[w], task[c][w].success, now)]
  /\ task' = [d \in Calls |->
                IF task[d][w].pc = "update"
                  THEN [task[d] EXCEPT ![w].pc =
                          IF task[d][w].success THEN "done" ELSE "check"]
                  ELSE task[d]]
  /\ updates' = [updates EXCEPT ![w] =
                   @ + Cardinality({d \in Calls : task[d][w].pc = "update"})]
  /\ UNCHANGED <<now, webhookDelivery, call, posts, dispatched>>
  /\ UNCHANGED <<gatewayVars, rl, hs, vs, test, aborted>>

\* db.webhook.update of lastDeliveryAt and failureCount.
UpdateStats(c, w) ==
  /\ task[c][w].pc = "update"
  /\ webhook' = [webhook EXCEPT ![w] =
                   StatsUpdate(webhook[w], task[c][w].success, now)]
  /\ task' = [task EXCEPT ![c][w].pc =
                IF task[c][w].success THEN "done" ELSE "check"]
  /\ updates' = [updates EXCEPT ![w] = @ + 1]
  /\ UNCHANGED <<now, webhookDelivery, call, posts, dispatched>>
  /\ UNCHANGED <<gatewayVars, rl, hs, vs, test, aborted>>

\* TooManyFailures with the threshold itself still tolerated.
TooManyFailuresAbove(row) == row.failureCount > FailureThreshold

\* The condition under which the webhook is disabled.
TooManyFailures(row) == row.failureCount >= FailureThreshold

\* db.webhook.findUnique after a failed delivery.
FindUpdated(c, w) ==
  /\ task[c][w].pc = "check"
  /\ task' = [task EXCEPT ![c][w].pc =
                IF TooManyFailures(webhook[w]) THEN "disable" ELSE "done"]
  /\ UNCHANGED <<now, webhook, webhookDelivery, call, posts, updates, dispatched>>
  /\ UNCHANGED <<gatewayVars, rl, hs, vs, test, aborted>>

\* db.webhook.update({ isActive: false })
Disable(c, w) ==
  /\ task[c][w].pc = "disable"
  /\ webhook' = [webhook EXCEPT ![w].isActive = FALSE]
  /\ task' = [task EXCEPT ![c][w].pc = "done"]
  /\ UNCHANGED <<now, webhookDelivery, call, posts, updates, dispatched>>
  /\ UNCHANGED <<gatewayVars, rl, hs, vs, test, aborted>>

\* Finish reporting every delivery as a success.
FinishAllSucceeded(c) ==
  /\ call[c].pc = "running"
  /\ \A w \in call[c].webhooks : task[c][w].pc = "done"
  /\ call' = [call EXCEPT ![c].pc = "done",
                          ![c].result = "array",
                          ![c].outcomes =
                             {[webhookId |-> w, success |-> TRUE,
                               error |-> Null] : w \in call[c].webhooks}]
  /\ UNCHANGED <<now, webhook, webhookDelivery, task, posts, updates, dispatched>>
  /\ UNCHANGED <<gatewayVars, rl, hs, vs, test, aborted>>

\* Promise.all resolves with one outcome per delivery promise.
Finish(c) ==
  /\ call[c].pc = "running"
  /\ \A w \in call[c].webhooks : task[c][w].pc = "done"
  /\ call' = [call EXCEPT ![c].pc = "done",
                          ![c].result = "array",
                          ![c].outcomes =
                             {[webhookId |-> w,
                               success |-> task[c][w].success,
                               error |-> task[c][w].error] :
                                w \in call[c].webhooks}]
  /\ UNCHANGED <<now, webhook, webhookDelivery, task, posts, updates, dispatched>>
  /\ UNCHANGED <<gatewayVars, rl, hs, vs, test, aborted>>

\* The caller takes the result; the slot is free for the next invocation.
Return(c) ==
  /\ call[c].pc = "done"
  /\ call' = [call EXCEPT ![c] = IdleCall]
  /\ task' = [task EXCEPT ![c] = [w \in WebhookIds |-> IdleTask]]
  /\ UNCHANGED <<now, webhook, webhookDelivery, posts, updates, dispatched>>
  /\ UNCHANGED <<gatewayVars, rl, hs, vs, test, aborted>>

\* db.webhook.findMany rejects: triggerWebhooks raises.
ResolveFails(c) ==
  /\ call[c].pc = "resolve"
  /\ call' = [call EXCEPT ![c].pc = "done", ![c].result = "raised"]
  /\ UNCHANGED <<now, webhook, webhookDelivery, task, posts, updates, dispatched>>
  /\ UNCHANGED <<gatewayVars, rl, hs, vs, test, aborted>>

\* The db call a delivery promise awaits (webhookDelivery.create,
\* webhook.update, webhook.findUnique) rejects: nothing catches it, the
\* promise rejects.
PersistenceFails(c, w) ==
  /\ task[c][w].pc \in {"record", "update", "check", "disable"}
  /\ task' = [task EXCEPT ![c][w].pc = "rejected"]
  /\ UNCHANGED <<now, webhook, webhookDelivery, call, posts, updates, dispatched>>
  /\ UNCHANGED <<gatewayVars, rl, hs, vs, test, aborted>>

\* Raise abandoning the delivery promises that have not settled yet.
RaiseCancelsOthers(c) ==
  /\ call[c].pc = "running"
  /\ \E w \in call[c].webhooks : task[c][w].pc = "rejected"
  /\ call' = [call EXCEPT ![c].pc = "done", ![c].result = "raised"]
  /\ task' = [task EXCEPT ![c] =
                [w \in WebhookIds |->
                   IF task[c][w].pc \in {"none", "done", "rejected"}
                     THEN task[c][w]
                     ELSE [task[c][w] EXCEPT !.pc = "none"]]]
  /\ UNCHANGED <<now, webhook, webhookDelivery, posts, updates, dispatched>>
  /\ UNCHANGED <<gatewayVars, rl, hs, vs, test, aborted>>

\* Promise.all rejects as soon as one delivery promise has rejected; the
\* other promises run on.
Raise(c) ==
  /\ call[c].pc = "running"
  /\ \E w \in call[c].webhooks : task[c][w].pc = "rejected"
  /\ call' = [call EXCEPT ![c].pc = "done", ![c].result = "raised"]
  /\ UNCHANGED <<now, webhook, webhookDelivery, task, posts, updates, dispatched>>
  /\ UNCHANGED <<gatewayVars, rl, hs, vs, test, aborted>>

(***************************************************************************)
(* testWebhook                                                             *)
(***************************************************************************)
\* Ids testWebhook is called with: the registered ones and an unknown one.
TestIds == WebhookIds \cup {"w9"}
\* The serialized `data` of the test payload.
TestData == <<9>>

IdleTest == [pc |-> "idle", webhookId |-> Null, body |-> <<>>,
             signature |-> <<>>, raised |-> FALSE, success |-> FALSE,
             statusCode |-> NullInt, error |-> Null]

\* testWebhook(webhookId) is invoked.
TestStart(id) ==
  /\ test.pc = "idle"
  /\ test' = [IdleTest EXCEPT !.pc = "find", !.webhookId = id]
  /\ UNCHANGED <<now, dispatcherVars, gatewayVars, rl, hs, vs, aborted>>

\* db.webhook.findUnique and the continuation up to the fetch, which sends
\* the POST; throws when there is no such webhook.
TestFind ==
  /\ test.pc = "find"
  /\ test' =
       IF test.webhookId \notin WebhookIds
         THEN [test EXCEPT !.pc = "done", !.raised = TRUE,
                           !.error = "Webhook not found"]
         ELSE LET row == webhook[test.webhookId]
                  payloadString ==
                    JsonStringify([event |-> "case.created",
                                   timestamp |-> now, data |-> TestData,
                                   organizationId |-> row.organizationId])
              IN  [test EXCEPT !.pc = "fetch", !.body = payloadString,
                               !.signature =
                                  GenerateSignature(payloadString, row.secret)]
  /\ UNCHANGED <<now, dispatcherVars, gatewayVars, rl, hs, vs, aborted>>

\* TestRespond counting a non-2xx response as a failed delivery.
TestRespondCountsFailure(status) ==
  /\ test.pc = "fetch"
  /\ test' = [test EXCEPT !.pc = "done", !.success = ResponseOk(status),
                          !.statusCode = status]
  /\ webhook' = [webhook EXCEPT ![test.webhookId] =
                   StatsUpdate(@, ResponseOk(status), now)]
  /\ UNCHANGED <<now, webhookDelivery, call, task, posts, updates, dispatched>>
  /\ UNCHANGED <<gatewayVars, rl, hs, vs, aborted>>

\* fetch settles with an HTTP response: testWebhook returns the outcome.
TestRespond(status) ==
  /\ test.pc = "fetch"
  /\ test' = [test EXCEPT !.pc = "done", !.success = ResponseOk(status),
                          !.statusCode = status]
  /\ UNCHANGED <<now, dispatcherVars, gatewayVars, rl, hs, vs, aborted>>

\* fetch rejects: transport failure or the 10 second abort.
TestTransportFailure ==
  /\ test.pc = "fetch"
  /\ test' = [test EXCEPT !.pc = "done", !.success = FALSE,
                          !.error = "err.message"]
  /\ UNCHANGED <<now, dispatcherVars, gatewayVars, rl, hs, vs, aborted>>

(***************************************************************************)
(* Strings                                                                 *)
(***************************************************************************)
Min(a, b) == IF a < b THEN a ELSE b
Max(a, b) == IF a > b THEN a ELSE b

\* String.prototype.startsWith
StartsWith(s, p) == Len(p) <= Len(s) /\ SubSeq(s, 1, Len(p)) = p
\* String.prototype.endsWith
EndsWith(s, p) == Len(p) <= Len(s) /\ SubSeq(s, Len(s) - Len(p) + 1, Len(s)) = p
\* s.substring(0, n)
Substring0(s, n) == SubSeq(s, 1, Min(n, Len(s)))
\* s.slice(0, -n)
SliceOff(s, n) == SubSeq(s, 1, Max(0, Len(s) - n))

(***************************************************************************)
(* API keys                                                                *)
(***************************************************************************)
CharCode(ch) ==
  CASE ch = "i" -> 105 [] ch = "p" -> 112 [] ch = "_" -> 95 [] ch = "s" -> 115
    [] ch = "k" -> 107 [] ch = "a" -> 97 [] ch = "b" -> 98

\* The one-way digest of a key: a polynomial digest of its characters, which
\* like SHA-256 is a function of the whole string and differs from it.
RECURSIVE DigestFrom(_, _)
DigestFrom(h, s) ==
  IF s = <<>> THEN h
  ELSE DigestFrom((h * 31 + CharCode(Head(s))) % 65521, Tail(s))
Sha256(s) == DigestFrom(7, s)

\* The outputs of crypto.randomBytes(KEY_LENGTH).toString('base64url'), in
\* the order the random source yields them: no output comes twice.
\* They are longer than the display prefix leaves room for, as the 43
\* characters of the program's are: two keys may share their display prefix.
RandomStem == <<"a", "a", "a", "a", "a", "a", "a", "a", "a">>
RandomParts == <<RandomStem \o <<"a">>, RandomStem \o <<"b">>,
                 RandomStem \o <<"a", "b">> >>

\* GenerateApiKey hashing the random part instead of the whole key.
GenerateApiKeyHashOfRandom(random) ==
  LET key == API_KEY_PREFIX \o random
  IN  [key |-> key, hash |-> Sha256(random),
       prefix |-> Substring0(key, KeyPrefixLen)]

\* generateApiKey, for one outcome of the random source.
GenerateApiKey(random) ==
  LET key == API_KEY_PREFIX \o random
  IN  [key |-> key, hash |-> Sha256(key), prefix |-> Substring0(key, KeyPrefixLen)]

\* The secrets a client may present: well-formed ones and ones with
\* another prefix.
PresentedKeys ==
  {API_KEY_PREFIX \o RandomParts[1], API_KEY_PREFIX \o RandomParts[2],
   <<"s", "k", "_", "a">>}

\* Authorization headers: absent, another scheme, or Bearer with a secret.
NoHeader == [scheme |-> Null, rest |-> <<>>]
Headers ==
  {NoHeader} \cup {[scheme |-> "Basic ", rest |-> API_KEY_PREFIX \o RandomParts[1]]}
    \cup {[scheme |-> "Bearer ", rest |-> k] : k \in PresentedKeys}

\* expiresAt of a new key: none, an instant already past, or this instant.
Expiries == {NullInt, HourMs - 1, HourMs}
\* The tenant, name and scopes createApiKey is called with.
IssueInputs ==
  {[organizationId |-> "o1", name |-> "ci",
    scopes |-> << <<"f", ".", "*">> >>],
   [organizationId |-> "o2", name |-> "ci",
    scopes |-> << <<"*">>, <<"f", ".", "r">> >>]}
\* What createApiKey accepts: any name and any scope list, empty ones
\* included.
AnyIssueInputs ==
  {[organizationId |-> org, name |-> name, scopes |-> scopes] :
     org \in Orgs, name \in {"", "ci"},
     scopes \in {<<>>, << <<"f", ".", "*">> >>}}
\* The rateLimit column of a new key (its default is set by the schema).
RateLimits == {0, 1}
Reqs == 1 .. MaxReqs

IdleReq == [pc |-> "idle", header |-> NoHeader, key |-> <<>>, found |-> <<>>,
            status |-> 0, error |-> Null, remaining |-> NullInt,
            at |-> NullInt, before |-> {}]

\* The gateway before any key exists.
GatewayInit ==
  /\ apiKey = <<>>
  /\ auditLog = EmptyBag
  /\ req = [r \in Reqs |-> IdleReq]
  /\ issued = {}
  /\ aborted = {}

\* createAuditLog: the row db.auditLog.create adds; newValue is empty
\* unless the caller passes one.
AuditRow(org, action, entityType, entityId, at) ==
  [organizationId |-> org, action |-> action, entityType |-> entityType,
   entityId |-> entityId, newValue |-> <<>>, createdAt |-> at]

\* NewApiKeyRow keeping the whole key as the display prefix.
NewApiKeyRowKeepsKey(org, name, scopes, expiresAt, gen, limit) ==
  [organizationId |-> org, name |-> name, key |-> gen.hash,
   keyPrefix |-> gen.key, scopes |-> scopes, expiresAt |-> expiresAt,
   isActive |-> TRUE, usageCount |-> 0, lastUsedAt |-> NullInt,
   rateLimit |-> limit]

\* The row db.apiKey.create stores.
NewApiKeyRow(org, name, scopes, expiresAt, gen, limit) ==
  [organizationId |-> org, name |-> name, key |-> gen.hash,
   keyPrefix |-> gen.prefix, scopes |-> scopes, expiresAt |-> expiresAt,
   isActive |-> TRUE, usageCount |-> 0, lastUsedAt |-> NullInt,
   rateLimit |-> limit]

\* createApiKey(organizationId, name, scopes, createdBy, expiresAt); the
\* create throws when a stored key has the same hash.
CreateApiKey(org, name, scopes, expiresAt, limit) ==
  LET gen == GenerateApiKey(RandomParts[Len(apiKey) + 1])
      id == Len(apiKey) + 1
  IN  /\ Len(apiKey) < Min(MaxKeys, Len(RandomParts))
      /\ \A i \in 1 .. Len(apiKey) : apiKey[i].key # gen.hash
      /\ apiKey' = Append(apiKey,
                          NewApiKeyRow(org, name, scopes, expiresAt, gen, limit))
      /\ auditLog' = auditLog (+)
           SetToBag({[AuditRow(org, "api_key.created", "api_key", id, now)
                        EXCEPT !.newValue = <<name, scopes, expiresAt>>]})
      /\ issued' = issued \cup
           {[id |-> id, key |-> gen.key, organizationId |-> org,
             scopes |-> scopes]}
      /\ UNCHANGED <<now, req, rl, hs, vs, test, aborted, dispatcherVars>>

\* createApiKey when createAuditLog rejects: the row is stored, the awaited
\* rejection propagates, and the caller gets neither the row nor the key.
CreateApiKeyAuditFails(org, name, scopes, expiresAt, limit) ==
  LET gen == GenerateApiKey(RandomParts[Len(apiKey) + 1])
      id == Len(apiKey) + 1
  IN  /\ Len(apiKey) < Min(MaxKeys, Len(RandomParts))
      /\ \A i \in 1 .. Len(apiKey) : apiKey[i].key # gen.hash
      /\ apiKey' = Append(apiKey,
                          NewApiKeyRow(org, name, scopes, expiresAt, gen, limit))
      /\ aborted' = aborted \cup
           {[operation |-> "createApiKey", entityId |-> id,
             organizationId |-> org, cause |-> "createAuditLog"]}
      /\ UNCHANGED <<now, auditLog, issued, req, rl, hs, vs, test,
                     dispatcherVars>>

\* RevokeWhere matching on the id alone.
RevokeWhereAnyTenant(id, org) == {i \in 1 .. Len(apiKey) : i = id}

\* The rows that the where-clause { id: apiKeyId, organizationId } of
\* revokeApiKey matches.
RevokeWhere(id, org) ==
  {i \in 1 .. Len(apiKey) : i = id /\ apiKey[i].organizationId = org}

\* revokeApiKey when no row has this id and organization: db.apiKey.update
\* throws, the call raises before anything is written.
RevokeApiKeyNotFound(id, org) ==
  /\ RevokeWhere(id, org) = {}
  /\ aborted' = aborted \cup
       {[operation |-> "revokeApiKey", entityId |-> id,
         organizationId |-> org, cause |-> "db.apiKey.update"]}
  /\ UNCHANGED <<now, apiKey, auditLog, issued, req, rl, hs, vs, test,
                 dispatcherVars>>

\* revokeApiKey when createAuditLog rejects: the key is revoked and the
\* call raises.
RevokeApiKeyAuditFails(id, org) ==
  /\ RevokeWhere(id, org) # {}
  /\ apiKey[id].isActive
  /\ apiKey' = [apiKey EXCEPT ![id].isActive = FALSE]
  /\ aborted' = aborted \cup
       {[operation |-> "revokeApiKey", entityId |-> id,
         organizationId |-> org, cause |-> "createAuditLog"]}
  /\ UNCHANGED <<now, auditLog, issued, req, rl, hs, vs, test,
                 dispatcherVars>>

\* revokeApiKey(apiKeyId, organizationId, revokedBy); the update throws when
\* no row has this id and organization.
RevokeApiKey(id, org) ==
  /\ RevokeWhere(id, org) # {}
  /\ apiKey[id].isActive
  /\ apiKey' = [apiKey EXCEPT ![id].isActive = FALSE]
  /\ auditLog' = auditLog (+)
       SetToBag({AuditRow(org, "api_key.deleted", "api_key", id, now)})
  /\ UNCHANGED <<now, req, issued, rl, hs, vs, test, aborted, dispatcherVars>>

\* The requests that completed authenticated, with the key `key`.
AuthenticatedWith(key) ==
  {p \in Reqs : req[p].pc = "done" /\ req[p].status = 200 /\ req[p].key = key}

\* authenticateApiRequest up to the first await: the header check, and the
\* prefix check of validateApiKey.
ReqStart(r, header) ==
  /\ req[r].pc = "idle"
  /\ \A q \in Reqs : q < r => req[q].pc # "idle"
  /\ req' = [req EXCEPT ![r] =
       IF header.scheme # "Bearer "
         THEN [IdleReq EXCEPT !.pc = "done", !.header = header, !.status = 401,
                 !.error = "Missing or invalid authorization header"]
       ELSE IF ~StartsWith(header.rest, API_KEY_PREFIX)
         THEN [IdleReq EXCEPT !.pc = "done", !.header = header,
                 !.key = header.rest, !.status = 401,
                 !.error = "Invalid API key"]
       ELSE [IdleReq EXCEPT !.pc = "find", !.header = header,
               !.key = header.rest,
               !.before = AuthenticatedWith(header.rest)]]
  /\ UNCHANGED <<now, apiKey, auditLog, issued, rl, hs, vs, test, aborted, dispatcherVars>>

\* db.apiKey.findUnique({ where: { key: hash } })
FindUnique(hash) == {i \in 1 .. Len(apiKey) : apiKey[i].key = hash}

\* ValidRow without the isActive check.
ValidRowIgnoresActive(row, t) ==
  ~(row.expiresAt # NullInt /\ row.expiresAt < t)

\* The checks of validateApiKey on the row found: FALSE where it returns null.
ValidRow(row, t) ==
  /\ row.isActive
  /\ ~(row.expiresAt # NullInt /\ row.expiresAt < t)

\* FindKey counting the use of a key it found, valid or not.
FindKeyCountsAttempt(r) ==
  /\ req[r].pc = "find"
  /\ LET ids == FindUnique(Sha256(req[r].key))
     IN  IF ids = {} \/ \E i \in ids : ~ValidRow(apiKey[i], now)
           THEN /\ req' = [req EXCEPT ![r].pc = "done", ![r].status = 401,
                                      ![r].error = "Invalid API key"]
                /\ apiKey' = [i \in 1 .. Len(apiKey) |->
                                IF i \in ids
                                  THEN [apiKey[i] EXCEPT
                                          !.lastUsedAt = now,
                                          !.usageCount = @ + 1]
                                  ELSE apiKey[i]]
           ELSE /\ \E i \in ids :
                     req' = [req EXCEPT ![r].pc = "update",
                               ![r].found = <<[id |-> i, row |-> apiKey[i]]>>]
                /\ apiKey' = apiKey
  /\ UNCHANGED <<now, auditLog, issued, rl, hs, vs, test, aborted, dispatcherVars>>

\* validateApiKey: the lookup by hash and the checks on the row.
FindKey(r) ==
  /\ req[r].pc = "find"
  /\ LET ids == FindUnique(Sha256(req[r].key))
     IN  IF ids = {} \/ \E i \in ids : ~ValidRow(apiKey[i], now)
           THEN req' = [req EXCEPT ![r].pc = "done", ![r].status = 401,
                                   ![r].error = "Invalid API key"]
           ELSE \E i \in ids :
                  req' = [req EXCEPT ![r].pc = "update",
                            ![r].found = <<[id |-> i, row |-> apiKey[i]]>>]
  /\ UNCHANGED <<now, apiKey, auditLog, issued, rl, hs, vs, test, aborted, dispatcherVars>>

\* UsageUpdate as a read-modify-write of the row read by findUnique.
UsageUpdateFromRead(row, read, t) ==
  [row EXCEPT !.lastUsedAt = t, !.usageCount = read.usageCount + 1]

\* The data of the usage update; the increment is made by the database on
\* the stored row, not on the row read before.
UsageUpdate(row, read, t) ==
  [row EXCEPT !.lastUsedAt = t, !.usageCount = row.usageCount + 1]

\* UpdateUsage writing back the whole row read by findUnique, its isActive
\* included.
UpdateUsageWritesRowBack(r) ==
  /\ req[r].pc = "update"
  /\ LET id == req[r].found[1].id
     IN  apiKey' = [apiKey EXCEPT ![id] =
                      UsageUpdate(req[r].found[1].row, req[r].found[1].row, now)]
  /\ req' = [req EXCEPT ![r].pc = "ratelimit", ![r].at = now]
  /\ UNCHANGED <<now, auditLog, issued, rl, hs, vs, test, aborted, dispatcherVars>>

\* validateApiKey: db.apiKey.update of the usage statistics, and the return.
UpdateUsage(r) ==
  /\ req[r].pc = "update"
  /\ LET id == req[r].found[1].id
     IN  apiKey' = [apiKey EXCEPT ![id] =
                      UsageUpdate(apiKey[id], req[r].found[1].row, now)]
  /\ req' = [req EXCEPT ![r].pc = "ratelimit", ![r].at = now]
  /\ UNCHANGED <<now, auditLog, issued, rl, hs, vs, test, aborted, dispatcherVars>>

\* RecentUsage counting the usage events of a key of any age.
RecentUsageAnyAge(log, apiKeyId, windowStart) ==
  LET rows == {a \in BagToSet(log) : /\ a.action = "api_key.used"
                                     /\ a.entityId = apiKeyId}
  IN  BagCardinality([a \in rows |-> log[a]])

\* db.auditLog.count of the usage events of a key since windowStart.
RecentUsage(log, apiKeyId, windowStart) ==
  LET rows == {a \in BagToSet(log) : /\ a.action = "api_key.used"
                                     /\ a.entityId = apiKeyId
                                     /\ a.createdAt >= windowStart}
  IN  BagCardinality([a \in rows |-> log[a]])

\* checkRateLimit(apiKeyId, rateLimit) at instant t over the audit log.
CheckRateLimit(log, apiKeyId, rateLimit, t) ==
  LET windowStart == t - HourMs
      remaining == Max(0, rateLimit - RecentUsage(log, apiKeyId, windowStart))
  IN  [allowed |-> remaining > 0, remaining |-> remaining,
       resetAt |-> windowStart + HourMs]

\* CheckRate taking the usage update back when it refuses the request.
CheckRateUndoesUsage(r) ==
  /\ req[r].pc = "ratelimit"
  /\ LET k == req[r].found[1]
         rateLimit == CheckRateLimit(auditLog, k.id, k.row.rateLimit, now)
     IN  /\ req' = [req EXCEPT ![r].pc = "done",
                      ![r].status = IF rateLimit.allowed THEN 200 ELSE 429,
                      ![r].error = IF rateLimit.allowed THEN Null
                                   ELSE "Rate limit exceeded",
                      ![r].remaining = rateLimit.remaining]
         /\ apiKey' = IF rateLimit.allowed THEN apiKey
                      ELSE [apiKey EXCEPT ![k.id].usageCount = @ - 1]
  /\ UNCHANGED <<now, auditLog, issued, rl, hs, vs, test, aborted, dispatcherVars>>

\* authenticateApiRequest: the rate-limit check and the result.
CheckRate(r) ==
  /\ req[r].pc = "ratelimit"
  /\ LET k == req[r].found[1]
         rateLimit == CheckRateLimit(auditLog, k.id, k.row.rateLimit, now)
     IN  req' = [req EXCEPT ![r].pc = "done",
                   ![r].status = IF rateLimit.allowed THEN 200 ELSE 429,
                   ![r].error = IF rateLimit.allowed THEN Null
                                ELSE "Rate limit exceeded",
                   ![r].remaining = rateLimit.remaining]
  /\ UNCHANGED <<now, apiKey, auditLog, issued, rl, hs, vs, test, aborted, dispatcherVars>>

(***************************************************************************)
(* hasScope and checkRateLimit called on their own                         *)
(***************************************************************************)
\* hasScope(apiKey, requiredScope), apiKey.scopes being `scopes`.
HasScope(scopes, requiredScope) ==
  \/ \E i \in 1 .. Len(scopes) : scopes[i] = <<"*">>
  \/ \E i \in 1 .. Len(scopes) : scopes[i] = requiredScope
  \/ \E i \in 1 .. Len(scopes) :
       /\ EndsWith(scopes[i], <<".", "*">>)
       /\ StartsWith(requiredScope, SliceOff(scopes[i], 2))

ScopeAlphabet == {"f", "r", ".", "*"}
StringsUpTo(n) == UNION {[1 .. k -> ScopeAlphabet] : k \in 0 .. n}
\* The scope lists hasScope is tried on: empty, one entry, and one entry
\* followed by a second one.
ScopeInputs ==
  {<<>>} \cup {<<s>> : s \in StringsUpTo(MaxScopeLen)}
         \cup {<<<<"r", ".", "r">>, s>> : s \in StringsUpTo(MaxScopeLen)}
RequiredInputs == StringsUpTo(MaxRequiredLen)

IdleHs == [scopes |-> <<>>, required |-> <<>>, done |-> FALSE, result |-> FALSE]
IdleRl == [apiKeyId |-> 0, rateLimit |-> 0, at |-> NullInt, done |-> FALSE,
           allowed |-> FALSE, remaining |-> NullInt, resetAt |-> NullInt]

\* A caller evaluates hasScope on the inputs drawn.
HasScopeCall ==
  /\ ~hs.done
  /\ hs' = [hs EXCEPT !.done = TRUE,
                      !.result = HasScope(hs.scopes, hs.required)]
  /\ UNCHANGED <<now, gatewayVars, rl, vs, test, aborted, dispatcherVars>>

\* verifyWebhookSignature is tried on the envelopes of two events, two
\* secrets, and as signature every string of two digits up to
\* MaxSignatureLen and every signature generateSignature yields for them.
VerifyPayloads ==
  {JsonStringify([event |-> ev, timestamp |-> HourMs, data |-> <<1>>,
                  organizationId |-> "o1"]) : ev \in WebhookEvents}
VerifySecrets == {WebhookSecret["w1"], WebhookSecret["w2"]}
VerifySignatures ==
  UNION {[1 .. k -> {"0", "f"}] : k \in 0 .. MaxSignatureLen}
    \cup {GenerateSignature(p, k) : p \in VerifyPayloads, k \in VerifySecrets}

IdleVs == [payload |-> <<>>, signature |-> <<>>, secret |-> <<>>,
           done |-> FALSE, raised |-> FALSE, value |-> FALSE]

\* A caller evaluates verifyWebhookSignature on the inputs drawn.
VerifyCall ==
  /\ ~vs.done
  /\ LET r == VerifyWebhookSignature(vs.payload, vs.signature, vs.secret)
     IN  vs' = [vs EXCEPT !.done = TRUE, !.raised = r.raised,
                          !.value = r.value]
  /\ UNCHANGED <<now, gatewayVars, rl, hs, test, aborted, dispatcherVars>>

\* Instants of the usage events in the audit log, and of the calls.
UsageInstants == {0, 1, HourMs}
RateInstants == {HourMs, HourMs + 1, 2 * HourMs + 1}
\* The limits checkRateLimit is called with.
LimitInputs == {-1, 0, 1, 5}

\* An audit log holding n[t] usage events of key 1 at each instant t, among
\* a usage event of key 2 and an event of key 1 of another kind.
UsageLog(n) ==
  [a \in {AuditRow("o1", "api_key.used", "api_key", 1, t) :
            t \in {u \in UsageInstants : n[u] > 0}} |-> n[a.createdAt]]
    (+) SetToBag({AuditRow("o1", "api_key.used", "api_key", 2, HourMs),
                  AuditRow("o1", "api_key.created", "api_key", 1, HourMs)})

\* A caller evaluates checkRateLimit.
CheckRateLimitCall(id, limit) ==
  /\ LET res == CheckRateLimit(auditLog, id, limit, now)
     IN  rl' = [apiKeyId |-> id, rateLimit |-> limit, at |-> now, done |-> TRUE,
                allowed |-> res.allowed, remaining |-> res.remaining,
                resetAt |-> res.resetAt]
  /\ UNCHANGED <<now, gatewayVars, hs, vs, test, aborted, dispatcherVars>>

\* The clock moves forward between two checkRateLimit calls.
RateTick ==
  /\ \E t \in RateInstants : t > now /\ now' = t
  /\ UNCHANGED <<gatewayVars, rl, hs, vs, test, aborted, dispatcherVars>>

(***************************************************************************)
(* Specifications                                                          *)
(***************************************************************************)
\* The webhooks as createWebhook leaves them.
DispatcherAtRest ==
  /\ DispatcherInit
  /\ \A w \in WebhookIds : webhook[w].failureCount = 0

\* The dispatcher: concurrent triggerWebhooks calls.
Init ==
  /\ now = HourMs
  /\ DispatcherInit
  /\ GatewayInit
  /\ rl = IdleRl
  /\ hs = IdleHs
  /\ vs = IdleVs
  /\ test = IdleTest

Next ==
  \/ \E c \in Calls, org \in Orgs, ev \in WebhookEvents, d \in DataInputs :
       Trigger(c, org, ev, d)
  \/ \E c \in Calls : Resolve(c)
  \/ \E c \in Calls : ReturnEmpty(c)
  \/ \E c \in Calls : StartDeliveries(c)
  \/ \E c \in Calls, w \in WebhookIds, s \in StatusCodes : Respond(c, w, s)
  \/ \E c \in Calls, w \in WebhookIds : TransportFailure(c, w)
  \/ \E c \in Calls, w \in WebhookIds : RecordDelivery(c, w)
  \/ \E c \in Calls, w \in WebhookIds : UpdateStats(c, w)
  \/ \E c \in Calls, w \in WebhookIds : FindUpdated(c, w)
  \/ \E c \in Calls, w \in WebhookIds : Disable(c, w)
  \/ \E c \in Calls : Finish(c)
  \/ \E c \in Calls : Return(c)

Spec == Init /\ [][Next]_vars

\* The gateway: keys are created and revoked while requests authenticate,
\* all at the instant HourMs; a key's expiry lies before it, at it, or nowhere.
GatewayStart ==
  /\ now = HourMs
  /\ DispatcherAtRest
  /\ GatewayInit
  /\ rl = IdleRl
  /\ hs = IdleHs
  /\ vs = IdleVs
  /\ test = IdleTest

GatewayNext ==
  \/ \E in \in IssueInputs, e \in Expiries, limit \in RateLimits :
       CreateApiKey(in.organizationId, in.name, in.scopes, e, limit)
  \/ \E id \in 1 .. MaxKeys, org \in Orgs : RevokeApiKey(id, org)
  \/ \E r \in Reqs, h \in Headers : ReqStart(r, h)
  \/ \E r \in Reqs : FindKey(r)
  \/ \E r \in Reqs : UpdateUsage(r)
  \/ \E r \in Reqs : CheckRate(r)

GatewaySpec == GatewayStart /\ [][GatewayNext]_vars

\* hasScope on every scope list and required scope of the bounded sets.
ScopeStart ==
  /\ now = HourMs
  /\ DispatcherAtRest
  /\ GatewayInit
  /\ rl = IdleRl
  /\ vs = IdleVs
  /\ test = IdleTest
  /\ \E s \in ScopeInputs, q \in RequiredInputs :
       hs = [IdleHs EXCEPT !.scopes = s, !.required = q]

ScopeNext == HasScopeCall

ScopeSpec == ScopeStart /\ [][ScopeNext]_vars

\* checkRateLimit over audit logs that hold usage events.
RateStart ==
  /\ now \in RateInstants
  /\ DispatcherAtRest
  /\ apiKey = <<>>
  /\ req = [r \in Reqs |-> IdleReq]
  /\ issued = {}
  /\ aborted = {}
  /\ \E n \in [UsageInstants -> 0 .. MaxPerInstant] : auditLog = UsageLog(n)
  /\ rl = IdleRl
  /\ hs = IdleHs
  /\ vs = IdleVs
  /\ test = IdleTest

RateNext ==
  \/ RateTick
  \/ \E id \in {1, 2}, limit \in LimitInputs : CheckRateLimitCall(id, limit)

RateSpec == RateStart /\ [][RateNext]_vars

\* The credential operations on any input, with an audit sink that may
\* fail.
CredentialNext ==
  \/ \E in \in AnyIssueInputs, e \in Expiries, limit \in RateLimits :
       CreateApiKey(in.organizationId, in.name, in.scopes, e, limit)
  \/ \E in \in AnyIssueInputs, e \in Expiries, limit \in RateLimits :
       CreateApiKeyAuditFails(in.organizationId, in.name, in.scopes, e, limit)
  \/ \E id \in 1 .. MaxKeys, org \in Orgs : RevokeApiKey(id, org)
  \/ \E id \in 1 .. MaxKeys, org \in Orgs : RevokeApiKeyAuditFails(id, org)
  \/ \E id \in 1 .. Len(apiKey), org \in Orgs : RevokeApiKeyNotFound(id, org)

CredentialSpec == GatewayStart /\ [][CredentialNext]_vars

\* verifyWebhookSignature on every input of the bounded sets.
VerifyStart ==
  /\ now = HourMs
  /\ DispatcherAtRest
  /\ GatewayInit
  /\ rl = IdleRl
  /\ hs = IdleHs
  /\ test = IdleTest
  /\ \E p \in VerifyPayloads, g \in VerifySignatures, k \in VerifySecrets :
       vs = [IdleVs EXCEPT !.payload = p, !.signature = g, !.secret = k]

VerifyNext == VerifyCall

VerifySpec == VerifyStart /\ [][VerifyNext]_vars

\* One triggerWebhooks call fanning out to the webhooks of tenant o1, which
\* all subscribe case.created; w3 may have been disabled before.  Database
\* calls may fail.
FanoutStart ==
  /\ now = HourMs
  /\ \E fc \in StartCounts, active \in BOOLEAN :
       webhook = [w \in WebhookIds |->
                    [organizationId |-> "o1",
                     events |-> {"case.created"},
                     secret |-> WebhookSecret[w],
                     isActive |-> (w = "w3" => active),
                     failureCount |-> IF w = "w1" THEN fc ELSE 0,
                     lastDeliveryAt |-> NullInt]]
  /\ webhookDelivery = EmptyBag
  /\ call = [c \in Calls |-> IdleCall]
  /\ task = [c \in Calls |-> [w \in WebhookIds |-> IdleTask]]
  /\ posts = [w \in WebhookIds |-> 0]
  /\ updates = [w \in WebhookIds |-> 0]
  /\ dispatched = 0
  /\ GatewayInit
  /\ rl = IdleRl
  /\ hs = IdleHs
  /\ vs = IdleVs
  /\ test = IdleTest

FanoutNext ==
  \/ \E org \in Orgs, ev \in WebhookEvents, d \in DataInputs :
       Trigger(1, org, ev, d)
  \/ Resolve(1)
  \/ ResolveFails(1)
  \/ ReturnEmpty(1)
  \/ StartDeliveries(1)
  \/ \E w \in WebhookIds, s \in StatusCodes : Respond(1, w, s)
  \/ \E w \in WebhookIds : TransportFailure(1, w)
  \/ \E w \in WebhookIds : RecordDelivery(1, w)
  \/ \E w \in WebhookIds : UpdateStats(1, w)
  \/ \E w \in WebhookIds : FindUpdated(1, w)
  \/ \E w \in WebhookIds : Disable(1, w)
  \/ \E w \in WebhookIds : PersistenceFails(1, w)
  \/ Finish(1)
  \/ Raise(1)

FanoutSpec == FanoutStart /\ [][FanoutNext]_vars

\* triggerWebhooks called again and again for case.created of tenant o1,
\* each call after the one before has returned; the webhooks start as
\* createWebhook leaves them.
SequentialStart ==
  /\ Init
  /\ DispatcherAtRest

SequentialNext ==
  \/ \E d \in DataInputs :
       TriggerUpTo(1, "o1", "case.created", d, MaxSequential)
  \/ Resolve(1)
  \/ ReturnEmpty(1)
  \/ StartDeliveries(1)
  \/ \E w \in WebhookIds, s \in StatusCodes : Respond(1, w, s)
  \/ \E w \in WebhookIds : TransportFailure(1, w)
  \/ \E w \in WebhookIds : RecordDelivery(1, w)
  \/ \E w \in WebhookIds : UpdateStats(1, w)
  \/ \E w \in WebhookIds : FindUpdated(1, w)
  \/ \E w \in WebhookIds : Disable(1, w)
  \/ Finish(1)
  \/ Return(1)

SequentialSpec == SequentialStart /\ [][SequentialNext]_vars

\* The next step of the delivery promise of webhook w when its database
\* calls succeed.
DeliveryStep(w) ==
  \/ \E s \in StatusCodes : Respond(1, w, s)
  \/ TransportFailure(1, w)
  \/ RecordDelivery(1, w)
  \/ UpdateStats(1, w)
  \/ FindUpdated(1, w)
  \/ Disable(1, w)

\* Every fetch settles, by the 30 second abort at the latest, and every
\* database call returns or throws: a delivery promise that can take a step
\* takes one.
FanoutFairness == \A w \in WebhookIds : WF_vars(DeliveryStep(w))

FanoutLiveSpec == FanoutSpec /\ FanoutFairness

\* testWebhook beside one triggerWebhooks call.
TestNext ==
  \/ \E id \in TestIds : TestStart(id)
  \/ TestFind
  \/ \E s \in StatusCodes : TestRespond(s)
  \/ TestTransportFailure
  \/ \E org \in Orgs, ev \in WebhookEvents, d \in DataInputs :
       Trigger(1, org, ev, d)
  \/ Resolve(1)
  \/ ReturnEmpty(1)
  \/ StartDeliveries(1)
  \/ \E w \in WebhookIds, s \in StatusCodes : Respond(1, w, s)
  \/ \E w \in WebhookIds : TransportFailure(1, w)
  \/ \E w \in WebhookIds : RecordDelivery(1, w)
  \/ \E w \in WebhookIds : UpdateStats(1, w)
  \/ \E w \in WebhookIds : FindUpdated(1, w)
  \/ \E w \in WebhookIds : Disable(1, w)
  \/ Finish(1)

TestSpec == Init /\ [][TestNext]_vars

(***************************************************************************)
(* Properties of the dispatcher (specification Spec)                       *)
(***************************************************************************)
\* The number of rows of db.webhookDelivery that reference webhook w.
RECURSIVE SumCopies(_, _)
SumCopies(S, B) ==
  IF S = {} THEN 0
  ELSE LET x == CHOOSE y \in S : TRUE
       IN  CopiesIn(x, B) + SumCopies(S \ {x}, B)
DeliveriesOf(w, B) == SumCopies({d \in BagToSet(B) : d.webhookId = w}, B)

\* C1: every delivery attempt's statistics update sets the failure counter
\* to 0 when the attempt succeeded and raises it by exactly 1 when it
\* failed, and sets the last-delivery timestamp in both cases; no other step
\* of dispatch changes the counter or the timestamp.
C1_CounterFollowsOutcome ==
  [][\A w \in WebhookIds :
       LET updating == {c \in Calls : /\ task[c][w].pc = "update"
                                      /\ task'[c][w].pc # "update"}
       IN  /\ \A c \in updating :
                /\ webhook'[w].lastDeliveryAt = now
                /\ webhook'[w].failureCount =
                     IF task[c][w].success THEN 0
                     ELSE webhook[w].failureCount + 1
           /\ updating = {} =>
                /\ webhook'[w].failureCount = webhook[w].failureCount
                /\ webhook'[w].lastDeliveryAt = webhook[w].lastDeliveryAt]_vars

\* A failed delivery took w1 from 9 to 10 failures and a successful one
\* reset w2 to 0.
C1_Witness ==
  /\ webhook["w1"].failureCount = FailureThreshold
  /\ webhook["w1"].lastDeliveryAt = now
  /\ webhook["w2"].failureCount = 0
  /\ webhook["w2"].lastDeliveryAt = now
  /\ \E d \in BagToSet(webhookDelivery) : d.webhookId = "w1" /\ ~d.success
  /\ \E d \in BagToSet(webhookDelivery) : d.webhookId = "w2" /\ d.success

\* C2: whenever the dispatcher changes a subscription from active to
\* inactive its failure counter is at least 10 at that moment, and the
\* dispatcher never changes a subscription from inactive to active.
C2_DisabledOnlyAtThreshold ==
  [][\A w \in WebhookIds :
       /\ webhook[w].isActive /\ ~webhook'[w].isActive
            => webhook'[w].failureCount >= FailureThreshold
       /\ ~webhook[w].isActive => ~webhook'[w].isActive]_vars

\* C3: every delivery attempt produces exactly one DeliveryRecord whatever
\* its outcome: the records that reference a subscription, plus its attempts
\* still waiting for the response or for the record, number the POSTs sent
\* to it; and no step removes or changes an existing record.
C3_OneRecordPerAttempt ==
  /\ [](\A w \in WebhookIds :
          DeliveriesOf(w, webhookDelivery)
            + Cardinality({c \in Calls : task[c][w].pc \in {"fetch", "record"}})
            = posts[w])
  /\ [][\A d \in BagToSet(webhookDelivery) :
          CopiesIn(d, webhookDelivery') >= CopiesIn(d, webhookDelivery)]_vars

\* All attempts are over: two POSTs went to w1, one answered with a
\* non-2xx status and one never answered, and each has its record.
C3_Witness ==
  /\ \A c \in Calls, w \in WebhookIds : task[c][w].pc \in {"none", "done"}
  /\ posts["w1"] = 2
  /\ \E d \in BagToSet(webhookDelivery) :
       d.webhookId = "w1" /\ ~d.success /\ d.statusCode # NullInt
  /\ \E d \in BagToSet(webhookDelivery) :
       d.webhookId = "w1" /\ ~d.success /\ d.statusCode = NullInt
  /\ \A w \in WebhookIds : DeliveriesOf(w, webhookDelivery) = posts[w]
  /\ BagCardinality(webhookDelivery) = 2

\* C4 as stated: while a subscription is inactive no POST is sent to it and
\* no DeliveryRecord is written for it.
C4_NothingWhileInactive ==
  [][\A w \in WebhookIds :
       ~webhook[w].isActive =>
         /\ posts'[w] = posts[w]
         /\ DeliveriesOf(w, webhookDelivery') = DeliveriesOf(w, webhookDelivery)]_vars

\* C4 as amended: a dispatch call whose subscriber lookup runs while a
\* subscription is inactive leaves it out, and a POST is sent to a
\* subscription, or a DeliveryRecord written for it, only by a call whose
\* lookup returned it; the set a call looked up does not change afterwards.
C4_InactiveNeverSelected ==
  [][\A c \in Calls :
       /\ call[c].pc = "resolve" /\ call'[c].pc = "resolved"
            => \A w \in call'[c].webhooks : webhook[w].isActive
       /\ call[c].pc \in {"resolved", "running"} /\ call'[c].pc # "idle"
            => call'[c].webhooks = call[c].webhooks
       /\ \A w \in WebhookIds :
            /\ task[c][w].pc # task'[c][w].pc /\ task'[c][w].pc # "none"
                 => w \in call[c].webhooks
            /\ posts'[w] # posts[w]
                 => \E d \in Calls : /\ w \in call[d].webhooks
                                     /\ task[d][w].pc = "none"
                                     /\ task'[d][w].pc = "fetch"
            /\ DeliveriesOf(w, webhookDelivery') # DeliveriesOf(w, webhookDelivery)
                 => \E d \in Calls : /\ w \in call[d].webhooks
                                     /\ task[d][w].pc = "record"
                                     /\ task'[d][w].pc = "update"]_vars

\* w1 has been disabled after one POST, and a call for its tenant and event
\* has looked the subscribers up afterwards and found none.
C4_Witness ==
  /\ ~webhook["w1"].isActive
  /\ posts["w1"] = 1
  /\ \E c \in Calls :
       /\ call[c].pc \in {"resolved", "done"}
       /\ call[c].organizationId = "o1"
       /\ call[c].event = "case.created"
       /\ call[c].webhooks = {}

\* C13: an attempt is a success exactly when a response came and its status
\* is 2xx; a non-2xx response is a failure with its status code and an error
\* text, a transport failure or timeout a failure with a null status code
\* and an error text; and an attempt past its record has a DeliveryRecord
\* carrying that classification, and past its update has stamped the
\* subscription.
C13_SuccessIffTwoXX ==
  /\ [][\A c \in Calls, w \in WebhookIds :
          task[c][w].pc = "fetch" /\ task'[c][w].pc # "fetch" =>
            LET t == task'[c][w]
            IN  /\ t.pc = "record"
                /\ t.success <=>
                     (t.statusCode # NullInt /\ t.statusCode >= 200
                        /\ t.statusCode <= 299)
                /\ t.success => t.error = Null
                /\ ~t.success /\ t.statusCode # NullInt
                     => t.error = HttpError(t.statusCode)
                /\ t.statusCode = NullInt => t.error = "err.message"]_vars
  /\ [](\A c \in Calls, w \in WebhookIds :
          /\ task[c][w].pc \in {"update", "check", "disable", "done"}
               => \E d \in BagToSet(webhookDelivery) :
                    /\ d.webhookId = w
                    /\ d.event = call[c].event
                    /\ d.success = task[c][w].success
                    /\ d.statusCode = task[c][w].statusCode
                    /\ d.error = task[c][w].error
          /\ task[c][w].pc \in {"check", "disable", "done"}
               => webhook[w].lastDeliveryAt = now)
  /\ [](\A d \in BagToSet(webhookDelivery) :
          /\ d.success <=> (d.statusCode >= 200 /\ d.statusCode <= 299)
          /\ ~d.success => d.error # Null)

\* One attempt to w1 was answered with status 300 and another timed out;
\* both are over, recorded as failures, and w1 carries both in its counter.
C13_Witness ==
  /\ \E c \in Calls :
       /\ task[c]["w1"].pc = "done"
       /\ task[c]["w1"].statusCode = 300
       /\ ~task[c]["w1"].success
  /\ \E c \in Calls :
       /\ task[c]["w1"].pc = "done"
       /\ task[c]["w1"].statusCode = NullInt
       /\ task[c]["w1"].error = "err.message"
  /\ [webhookId |-> "w1", event |-> "case.created", statusCode |-> 300,
      success |-> FALSE, error |-> HttpError(300)]
       \in BagToSet(webhookDelivery)
  /\ [webhookId |-> "w1", event |-> "case.created", statusCode |-> NullInt,
      success |-> FALSE, error |-> "err.message"]
       \in BagToSet(webhookDelivery)
  /\ webhook["w1"].failureCount = 2
  /\ webhook["w1"].lastDeliveryAt = now

\* The calls whose delivery to webhook w has updated the counter.
Updated(w) ==
  {c \in Calls : task[c][w].pc \in {"check", "disable", "done"}}

\* C16: when exactly two deliveries have gone to a subscription, from two
\* dispatch calls in flight together, and both have updated its failure
\* counter, the counter is what the two outcomes give in some serial order:
\* two failures leave it 2 above its start, a failure and a success leave 0
\* or 1, two successes 0.
C16_CounterSerializable ==
  \A w \in WebhookIds :
    posts[w] = 2 /\ Cardinality(Updated(w)) = 2 =>
      LET failed == {c \in Updated(w) : ~task[c][w].success}
      IN  /\ Cardinality(failed) = 2
               => webhook[w].failureCount \in {s + 2 : s \in StartCounts}
          /\ Cardinality(failed) = 1 => webhook[w].failureCount \in {0, 1}
          /\ Cardinality(failed) = 0 => webhook[w].failureCount = 0

\* Two calls delivered to w1 together and both failed: each has updated the
\* counter and neither has read it back yet, and it went from 9 to 11.
C16_Witness ==
  /\ posts["w1"] = 2
  /\ \A c \in {1, 2} : task[c]["w1"].pc = "check"
  /\ webhook["w1"].failureCount = FailureThreshold + 1

\* C24: no webhook is active while its failure counter is 10 or more.
C24_NeverActiveAtThreshold ==
  \A w \in WebhookIds :
    webhook[w].isActive => webhook[w].failureCount < FailureThreshold

\* The calls that selected webhook w, made for the tenant that owns w and
\* for an event w subscribes.
SelectedBy(w) ==
  {c \in Calls : /\ w \in call[c].webhooks
                 /\ call[c].organizationId = webhook[w].organizationId
                 /\ call[c].event \in webhook[w].events}

\* C25: the findMany of a triggerWebhooks call selects exactly the webhooks
\* of its tenant that are active at that moment and subscribe its event; the
\* call sends one POST to each of them and starts no other delivery; and a
\* step that sends a POST to a webhook, records a delivery for it or updates
\* its row belongs to a call of its owner that selected it.
C25_OnlyOwnSubscribers ==
  [][/\ \A c \in Calls :
          /\ call[c].pc = "resolve" /\ call'[c].pc = "resolved"
               => call'[c].webhooks =
                    {w \in WebhookIds :
                       /\ webhook[w].organizationId = call[c].organizationId
                       /\ webhook[w].isActive
                       /\ call[c].event \in webhook[w].events}
          /\ call[c].pc = "resolved" /\ call'[c].pc = "running"
               => \A w \in WebhookIds :
                    /\ task'[c][w].pc # "none" <=> w \in call[c].webhooks
                    /\ posts'[w] = posts[w] + (IF w \in call[c].webhooks
                                                 THEN 1 ELSE 0)
     /\ \A w \in WebhookIds :
          webhook'[w] # webhook[w] \/ posts'[w] # posts[w]
            => SelectedBy(w) # {}
     /\ \A d \in BagToSet(webhookDelivery') :
          CopiesIn(d, webhookDelivery') # CopiesIn(d, webhookDelivery)
            => SelectedBy(d.webhookId) # {}]_vars

\* Two tenants dispatched case.created at the same time: each call delivered
\* to the webhook of its own tenant, and the webhook of o1 that subscribes
\* another event got nothing.
C25_Witness ==
  /\ call[1].pc = "done" /\ call[1].result = "array"
  /\ call[2].pc = "done" /\ call[2].result = "array"
  /\ call[1].organizationId # call[2].organizationId
  /\ call[1].event = "case.created" /\ call[2].event = "case.created"
  /\ \A c \in {1, 2} :
       \A w \in call[c].webhooks :
         /\ webhook[w].organizationId = call[c].organizationId
         /\ DeliveriesOf(w, webhookDelivery) = 1
         /\ posts[w] = 1
  /\ call[1].webhooks \cup call[2].webhooks = {"w1", "w3"}
  /\ posts["w2"] = 0
  /\ DeliveriesOf("w2", webhookDelivery) = 0

(***************************************************************************)
(* Properties of hasScope (specification ScopeSpec)                        *)
(***************************************************************************)
\* The authorization rule: the exact scope, the universal wildcard, or an
\* entry X.* where the required scope starts with X followed by the dot.
Authorizes(scopes, requiredScope) ==
  \E i \in 1 .. Len(scopes) :
    \/ scopes[i] = requiredScope
    \/ scopes[i] = <<"*">>
    \/ /\ EndsWith(scopes[i], <<".", "*">>)
       /\ StartsWith(requiredScope, SliceOff(scopes[i], 1))

\* C5: hasScope returns true exactly when the scope set holds the required
\* scope, holds '*', or holds an entry 'X.*' such that the required scope
\* starts with 'X.' (the dot included).
C5_HasScopeExactToBoundary ==
  hs.done => (hs.result <=> Authorizes(hs.scopes, hs.required))

(***************************************************************************)
(* Properties of the gateway (specification GatewaySpec)                   *)
(***************************************************************************)
\* The credentials whose raw secret, as createApiKey returned it, is `key`.
IssuedWith(key) == {x \in issued : x.key = key}
Unexpired(row, t) == row.expiresAt = NullInt \/ row.expiresAt >= t

\* C6: validateApiKey returns null for every secret without the 'ip_'
\* prefix, every secret that is the secret of no credential, and the secret
\* of a credential that is inactive or whose expiry is earlier than now; it
\* returns a result only for the secret of an active, unexpired credential.
C6_InvalidCredentialIsNull ==
  [][\A r \in Reqs :
       /\ req[r].pc = "idle" /\ req'[r].pc # "idle"
            /\ req'[r].header.scheme = "Bearer "
            /\ ~StartsWith(req'[r].header.rest, API_KEY_PREFIX)
            => req'[r].pc = "done" /\ req'[r].status = 401
                 /\ req'[r].found = <<>>
       /\ req[r].pc = "find" /\ req'[r].pc # "find"
            => IF \E x \in IssuedWith(req[r].key) :
                    apiKey[x.id].isActive /\ Unexpired(apiKey[x.id], now)
                 THEN req'[r].pc = "update" /\ req'[r].found # <<>>
                 ELSE req'[r].pc = "done" /\ req'[r].status = 401
                        /\ req'[r].found = <<>>]_vars

\* A request with the secret of a revoked credential was turned down, and
\* one with the secret of an expired credential too.
C6_Witness ==
  \E r \in Reqs, x \in issued :
    /\ req[r].pc = "done"
    /\ req[r].status = 401
    /\ req[r].key = x.key
    /\ ~apiKey[x.id].isActive
    /\ apiKey[x.id].expiresAt = NullInt

\* C7: createApiKey followed by validateApiKey with the returned raw secret,
\* the credential being neither revoked nor expired, succeeds and yields the
\* issuing tenant and the scopes issued.
C7_IssueThenAuthenticate ==
  [][\A r \in Reqs, x \in issued :
       /\ req[r].pc = "find" /\ req'[r].pc # "find"
       /\ req[r].key = x.key
       /\ apiKey[x.id].name # "" /\ x.scopes # <<>>
       /\ apiKey[x.id].isActive /\ Unexpired(apiKey[x.id], now)
       => /\ req'[r].pc = "update"
          /\ req'[r].found # <<>>
          /\ req'[r].found[1].id = x.id
          /\ req'[r].found[1].row.organizationId = x.organizationId
          /\ req'[r].found[1].row.scopes = x.scopes]_vars

\* A request presenting an issued secret has been authenticated.
C7_Witness ==
  \E r \in Reqs, x \in issued :
    /\ req[r].pc = "done"
    /\ req[r].key = x.key
    /\ req[r].found # <<>>
    /\ req[r].found[1].row.organizationId = x.organizationId
    /\ req[r].found[1].row.scopes = x.scopes

\* The requests that validateApiKey has authenticated with credential i.
AuthenticatedAs(i) ==
  {r \in Reqs : /\ req[r].pc \in {"ratelimit", "done"}
                /\ req[r].found # <<>>
                /\ req[r].found[1].id = i}

\* C8: the usage counter of a credential equals the number of successful
\* authentications with it, under every interleaving; it never decreases,
\* and each successful authentication raises it by exactly 1 and sets the
\* last-used timestamp.
C8_UsageCountsAuthentications ==
  /\ [](\A i \in 1 .. Len(apiKey) :
          apiKey[i].usageCount = Cardinality(AuthenticatedAs(i)))
  /\ [][\A i \in 1 .. Len(apiKey) :
          /\ apiKey'[i].usageCount >= apiKey[i].usageCount
          /\ \A r \in Reqs :
               req[r].pc = "update" /\ req'[r].pc # "update"
                 /\ req[r].found[1].id = i
               => /\ apiKey'[i].usageCount = apiKey[i].usageCount + 1
                  /\ apiKey'[i].lastUsedAt = now]_vars

\* Two authentications of one credential that both read the row before
\* either wrote it have both been counted.
C8_Witness ==
  \E i \in 1 .. Len(apiKey) :
    /\ apiKey[i].usageCount = 2
    /\ \A r \in {1, 2} : /\ req[r].pc = "done"
                         /\ req[r].found # <<>>
                         /\ req[r].found[1].id = i
                         /\ req[r].found[1].row.usageCount = 0

\* The raw secret generateApiKey drew for the credential with id i.
RawSecret(i) == GenerateApiKey(RandomParts[i]).key

\* The 'api_key.deleted' entries written for the credential with id i.
RevocationsOf(log, i) ==
  {a \in BagToSet(log) : a.action = "api_key.deleted" /\ a.entityId = i}

\* C22: a step of revokeApiKey sets isActive of its credential to false and
\* changes nothing else of the table; no step removes a credential or sets
\* an inactive one back to active; and a validateApiKey whose lookup finds
\* the credential inactive ends the request with 401 Invalid API key.
C22_RevokedStaysRevoked ==
  [][/\ Len(apiKey') >= Len(apiKey)
     /\ apiKey' # apiKey
          => \A i \in 1 .. Len(apiKey) :
               /\ apiKey'[i].key = apiKey[i].key
               /\ ~apiKey[i].isActive => ~apiKey'[i].isActive
     /\ auditLog' # auditLog
          => \A i \in 1 .. Len(apiKey) :
               RevocationsOf(auditLog', i) # RevocationsOf(auditLog, i)
                 => /\ apiKey[i].isActive
                    /\ apiKey' = [apiKey EXCEPT ![i].isActive = FALSE]
     /\ \A r \in Reqs :
          /\ req[r].pc = "find"
          /\ req'[r] # req[r]
          /\ \E i \in 1 .. Len(apiKey) :
               RawSecret(i) = req[r].key /\ ~apiKey[i].isActive
          => /\ req'[r].pc = "done"
             /\ req'[r].status = 401
             /\ req'[r].error = "Invalid API key"
             /\ apiKey' = apiKey]_vars

\* A credential without expiry authenticated one request, was revoked, and
\* the next request with the same secret was refused; its row is still there.
C22_Witness ==
  /\ Len(apiKey) = 1
  /\ ~apiKey[1].isActive
  /\ apiKey[1].expiresAt = NullInt
  /\ apiKey[1].usageCount = 1
  /\ RevocationsOf(auditLog, 1) # {}
  /\ req[1].pc = "done" /\ req[1].status = 200 /\ req[1].key = RawSecret(1)
  /\ req[2].pc = "done" /\ req[2].status = 401 /\ req[2].key = RawSecret(1)

\* The requests that validateApiKey accepted with the credential with id i
\* and that authenticateApiRequest has answered.
AnsweredFor(i) ==
  {q \in Reqs : /\ req[q].pc = "done"
                /\ req[q].status \in {200, 429}
                /\ req[q].found[1].id = i}

\* C26: a request refused with 429 has been counted: its credential's usage
\* counter is at least the number of requests answered for it, refused ones
\* included, and its last-used instant is not before the request's update;
\* the rate-limit step itself writes nothing to the credentials.
C26_UsageWrittenBeforeRateLimit ==
  /\ \A r \in Reqs :
       req[r].pc = "done" /\ req[r].status = 429
         => LET i == req[r].found[1].id
            IN  /\ apiKey[i].usageCount >= Cardinality(AnsweredFor(i))
                /\ req[r].at # NullInt
                /\ apiKey[i].lastUsedAt >= req[r].at
  /\ \A r \in Reqs :
       req[r].pc = "ratelimit"
         => /\ apiKey[req[r].found[1].id].usageCount >= 1
            /\ apiKey[req[r].found[1].id].lastUsedAt = req[r].at

\* A request with a valid key was refused with 429 and is counted.
C26_Witness ==
  \E r \in Reqs :
    /\ req[r].pc = "done" /\ req[r].status = 429
    /\ req[r].error = "Rate limit exceeded"
    /\ apiKey[req[r].found[1].id].usageCount = 1
    /\ apiKey[req[r].found[1].id].lastUsedAt = now

\* C27: the step that refuses a request with 401, for its header or for its
\* key, and every step of a request up to the lookup of its key, leaves the
\* credentials and the audit log as they are; a request refused with 401
\* has had no usage update and no rate-limit check.
C27_FailedAuthenticationChangesNothing ==
  [][\A r \in Reqs :
       /\ req'[r] # req[r] /\ req[r].pc \in {"idle", "find"}
            => apiKey' = apiKey /\ auditLog' = auditLog
       /\ req'[r].pc = "done" /\ req'[r].status = 401
            => /\ req'[r].at = NullInt
               /\ req'[r].remaining = NullInt
               /\ req'[r].found = <<>>
               /\ req[r].pc \in {"idle", "find", "done"}]_vars

\* One request was refused for its header and one for the key of a
\* credential that exists but is revoked or expired; the credential has
\* never been used.
C27_Witness ==
  /\ req[1].pc = "done" /\ req[1].status = 401
  /\ req[1].header.scheme # "Bearer "
  /\ req[2].pc = "done" /\ req[2].status = 401
  /\ req[2].header.scheme = "Bearer "
  /\ Len(apiKey) = 1
  /\ req[2].key = RawSecret(1)
  /\ apiKey[1].usageCount = 0
  /\ apiKey[1].lastUsedAt = NullInt

\* C10: a credential with rate limit L that has had L requests authenticated
\* within the trailing hour has its next request refused with status 429.
C10_LimitEnforcedEndToEnd ==
  \A r \in Reqs :
    /\ req[r].pc = "done"
    /\ req[r].found # <<>>
    /\ Cardinality({p \in req[r].before : req[r].at - req[p].at <= HourMs})
         >= req[r].found[1].row.rateLimit
    => req[r].status = 429

(***************************************************************************)
(* Properties of checkRateLimit (specification RateSpec)                   *)
(***************************************************************************)
\* The usage events of key id in the log that are at most `age` old at t.
UsageEvents(id, t, age) ==
  SumCopies({a \in BagToSet(auditLog) : /\ a.action = "api_key.used"
                                        /\ a.entityId = id
                                        /\ a.createdAt <= t
                                        /\ t - a.createdAt <= age}, auditLog)

\* C9: checkRateLimit counts the usage events of the credential in the
\* trailing 60 minutes and returns allowed = (count < limit), remaining =
\* max(0, limit - count) and resetAt = window start + 60 minutes; with limit
\* 5 and 5 events in the window it refuses with remaining 0, it allows again
\* once the oldest of them is older than 60 minutes, and a limit <= 0 never
\* allows.
C9_SlidingWindow ==
  rl.done =>
    LET count == UsageEvents(rl.apiKeyId, rl.at, HourMs)
        ever == UsageEvents(rl.apiKeyId, rl.at, rl.at)
    IN  /\ rl.allowed = (count < rl.rateLimit)
        /\ rl.remaining = Max(0, rl.rateLimit - count)
        /\ rl.resetAt = (rl.at - HourMs) + HourMs
        /\ rl.rateLimit = 5 /\ count = 5 => ~rl.allowed /\ rl.remaining = 0
        /\ rl.rateLimit = 5 /\ ever = 5 /\ count < ever => rl.allowed
        /\ rl.rateLimit <= 0 => ~rl.allowed

\* With limit 5 the key was refused at 5 events in the window.
C9_Witness ==
  /\ rl.done
  /\ rl.rateLimit = 5
  /\ UsageEvents(rl.apiKeyId, rl.at, HourMs) = 5
  /\ ~rl.allowed
  /\ rl.remaining = 0

(***************************************************************************)
(* Properties of one fan-out dispatch (specification FanoutSpec)           *)
(***************************************************************************)
\* The rows of db.webhookDelivery written for webhook w.
RecordsOf(w) == {d \in BagToSet(webhookDelivery) : d.webhookId = w}

\* C11: a dispatch call returns one outcome per matching subscription,
\* carrying the success flag of that subscription's attempt, and exactly one
\* DeliveryRecord per matching subscription exists then, whatever mix of
\* 2xx, non-2xx and transport failures the subscribers produced; a delivery
\* promise rejects only at a database call, and the call raises only when
\* the subscriber lookup or a delivery promise's database call failed.
C11_SubscriberFailuresContained ==
  /\ [](\A c \in Calls :
          call[c].result = "array" =>
            /\ {o.webhookId : o \in call[c].outcomes} = call[c].webhooks
            /\ Cardinality(call[c].outcomes) = Cardinality(call[c].webhooks)
            /\ \A o \in call[c].outcomes :
                 /\ o.success = task[c][o.webhookId].success
                 /\ \A d \in RecordsOf(o.webhookId) : d.success = o.success
            /\ \A w \in WebhookIds :
                 DeliveriesOf(w, webhookDelivery) =
                   IF w \in call[c].webhooks THEN 1 ELSE 0)
  /\ [][\A c \in Calls :
          /\ \A w \in WebhookIds :
               task[c][w].pc # "rejected" /\ task'[c][w].pc = "rejected"
                 => task[c][w].pc \in {"record", "update", "check", "disable"}
          /\ call[c].result # "raised" /\ call'[c].result = "raised"
               => \/ call[c].pc = "resolve"
                  \/ \E w \in call[c].webhooks : task[c][w].pc = "rejected"]_vars

\* The partial-failure scenario: of three subscribers one answered 200, one
\* a non-2xx status and one never answered; the call returned three outcomes
\* (success, failure, failure) and three records exist.
C11_Witness ==
  /\ call[1].result = "array"
  /\ call[1].webhooks = WebhookIds
  /\ call[1].outcomes =
       {[webhookId |-> "w1", success |-> TRUE, error |-> Null],
        [webhookId |-> "w2", success |-> FALSE, error |-> HttpError(300)],
        [webhookId |-> "w3", success |-> FALSE, error |-> "err.message"]}
  /\ BagCardinality(webhookDelivery) = 3
  /\ \A w \in WebhookIds : DeliveriesOf(w, webhookDelivery) = 1

\* C12: a dispatch call that finds no active subscription of the tenant for
\* the event returns an empty list of outcomes, and its return sends no
\* request, writes no DeliveryRecord and changes no subscription.
C12_NoSubscribersEmptyList ==
  /\ [](\A c \in Calls :
          call[c].pc = "done" /\ call[c].result # "raised"
            /\ call[c].webhooks = {}
            => call[c].result = "array" /\ call[c].outcomes = {})
  /\ [][\A c \in Calls :
          call[c].pc = "resolved" /\ call[c].webhooks = {}
            /\ call'[c].pc = "done"
            => /\ posts' = posts
               /\ webhookDelivery' = webhookDelivery
               /\ webhook' = webhook]_vars

\* Envelopes a subscriber of tenant o1 may hold: those of either event, with
\* either data.
Envelopes ==
  {JsonStringify([event |-> ev, timestamp |-> HourMs, data |-> d,
                  organizationId |-> "o1"]) :
     ev \in WebhookEvents, d \in {<<1>>, <<2>>}}

\* C15: the POSTs of one dispatch call all carry the envelope serialized
\* once for the call, and the signature sent to a subscriber verifies
\* against that envelope with the subscriber's own secret, and does not
\* verify with another subscriber's secret or against another envelope.
C15_SameEnvelopeOwnSignature ==
  \A c \in Calls, w \in WebhookIds :
    task[c][w].pc # "none" =>
      /\ task[c][w].body = call[c].payloadString
      /\ task[c][w].body \in Envelopes
      /\ \A v \in WebhookIds :
           task[c][v].pc # "none" => task[c][v].body = task[c][w].body
      /\ VerifyWebhookSignature(task[c][w].body, task[c][w].signature,
                                webhook[w].secret)
           = [raised |-> FALSE, value |-> TRUE]
      /\ \A v \in WebhookIds \ {w} :
           ~VerifyWebhookSignature(task[c][w].body, task[c][w].signature,
                                   webhook[v].secret).value
      /\ \A e \in Envelopes \ {task[c][w].body} :
           ~VerifyWebhookSignature(e, task[c][w].signature,
                                   webhook[w].secret).value

\* One call has sent its POST to all three subscribers, each with a
\* signature of its own.
C15_Witness ==
  /\ call[1].webhooks = WebhookIds
  /\ \A w \in WebhookIds : task[1][w].pc # "none"
  /\ Cardinality({task[1][w].signature : w \in WebhookIds}) = 3
  /\ Cardinality({task[1][w].body : w \in WebhookIds}) = 1

\* C17: within one dispatch call every matching subscription is sent
\* exactly one POST and no other subscription any: a POST goes out only
\* when the call starts its delivery promises, and a delivery promise that
\* has its response or its failure never goes back to sending.
C17_OneAttemptEach ==
  /\ [](\A c \in Calls :
          call[c].pc \in {"running", "done"} =>
            \A w \in WebhookIds :
              posts[w] = IF w \in call[c].webhooks THEN 1 ELSE 0)
  /\ [][\A c \in Calls, w \in WebhookIds :
          /\ task[c][w].pc \notin {"none", "fetch"}
               => task'[c][w].pc \notin {"none", "fetch"}
          /\ posts'[w] # posts[w]
               => /\ posts'[w] = posts[w] + 1
                  /\ \E d \in Calls : /\ call[d].pc = "resolved"
                                      /\ call'[d].pc = "running"
                                      /\ w \in call[d].webhooks]_vars

\* The call is over with three failed attempts, a transport failure among
\* them, and each subscriber got one POST.
C17_Witness ==
  /\ call[1].result = "array"
  /\ call[1].webhooks = WebhookIds
  /\ \A o \in call[1].outcomes : ~o.success
  /\ \E o \in call[1].outcomes : o.error = "err.message"
  /\ \E o \in call[1].outcomes : o.error = HttpError(300)
  /\ \A w \in WebhookIds : posts[w] = 1

\* C29: a delivery promise creates its DeliveryRecord, then updates the
\* webhook's statistics, then makes the deactivation check, and deactivates
\* after the check only; the statistics updates applied to a webhook are
\* never more than the DeliveryRecords that reference it; and every outcome
\* a call returns carries the success flag and the error of the record
\* written for that attempt.
C29_RecordThenUpdateThenCheck ==
  /\ [](\A w \in WebhookIds :
          updates[w] <= DeliveriesOf(w, webhookDelivery))
  /\ [](\A c \in Calls :
          call[c].result = "array" =>
            \A o \in call[c].outcomes :
              /\ RecordsOf(o.webhookId) # {}
              /\ \A d \in RecordsOf(o.webhookId) :
                   d.success = o.success /\ d.error = o.error)
  /\ [][\A c \in Calls, w \in WebhookIds :
          /\ task'[c][w].pc = "update" /\ task[c][w].pc # "update"
               => /\ task[c][w].pc = "record"
                  /\ DeliveriesOf(w, webhookDelivery')
                       = DeliveriesOf(w, webhookDelivery) + 1
                  /\ updates' = updates
          /\ updates'[w] # updates[w]
               => /\ updates'[w] = updates[w] + 1
                  /\ \E d \in Calls :
                       /\ task[d][w].pc = "update"
                       /\ task'[d][w].pc \in {"check", "done"}
          /\ task'[c][w].pc = "check" /\ task[c][w].pc # "check"
               => task[c][w].pc = "update" /\ updates'[w] = updates[w] + 1
          /\ task'[c][w].pc = "disable" /\ task[c][w].pc # "disable"
               => task[c][w].pc = "check"
          /\ webhook[w].isActive /\ ~webhook'[w].isActive
               => \E d \in Calls : task[d][w].pc = "disable"]_vars

\* The call returned three outcomes: every webhook has one record and one
\* statistics update, and w1, whose delivery was the tenth failure, was
\* deactivated after its update.
C29_Witness ==
  /\ call[1].result = "array"
  /\ call[1].webhooks = WebhookIds
  /\ \A w \in WebhookIds :
       updates[w] = 1 /\ DeliveriesOf(w, webhookDelivery) = 1
  /\ \E o \in call[1].outcomes : o.webhookId = "w1" /\ ~o.success
  /\ \E o \in call[1].outcomes : o.webhookId = "w2" /\ o.success
  /\ webhook["w1"].failureCount = FailureThreshold
  /\ ~webhook["w1"].isActive

\* The delivery promise of w has started and not settled.
InProgress(w) == task[1][w].pc \in {"fetch", "record", "update", "check", "disable"}

\* C30: when the delivery promise of one webhook has rejected at a database
\* call, the promise of every other webhook of the call that is still in
\* progress goes on, whether or not the call has raised meanwhile, until it
\* has resolved with its own DeliveryRecord and statistics update, or has
\* rejected at a database call of its own; and a call with a rejected
\* promise returns no outcomes.
C30_RejectionLeavesOthersRunning ==
  /\ \A w \in WebhookIds :
       ((\E v \in WebhookIds \ {w} : task[1][v].pc = "rejected")
          /\ InProgress(w))
         ~> \/ /\ task[1][w].pc = "done"
               /\ DeliveriesOf(w, webhookDelivery) = 1
               /\ updates[w] = 1
            \/ task[1][w].pc = "rejected"
  /\ [][\A w \in WebhookIds :
          /\ task'[1][w].pc = "none" => task[1][w].pc = "none"
          /\ call'[1].result = "array" => task[1][w].pc # "rejected"]_vars

\* The promise of w1 rejected at a database call and the call raised; the
\* promises of w2 and w3 have resolved, each with its record and its update.
C30_Witness ==
  /\ call[1].result = "raised"
  /\ call[1].webhooks = WebhookIds
  /\ task[1]["w1"].pc = "rejected"
  /\ \A w \in {"w2", "w3"} :
       /\ task[1][w].pc = "done"
       /\ DeliveriesOf(w, webhookDelivery) = 1
       /\ updates[w] = 1

(***************************************************************************)
(* Properties of verifyWebhookSignature (specification VerifySpec)         *)
(***************************************************************************)
\* C14: verifyWebhookSignature returns a boolean on every input and never
\* raises; it returns true exactly for the signature generateSignature
\* yields for the payload and the secret, and false for any other string,
\* an empty one or one of another length included.
C14_VerifyNeverRaises ==
  vs.done =>
    /\ ~vs.raised
    /\ vs.value <=> (vs.signature = GenerateSignature(vs.payload, vs.secret))

(***************************************************************************)
(* Properties of testWebhook (specification TestSpec)                      *)
(***************************************************************************)
\* C18: no step of testWebhook, whatever the subscriber answers and whether
\* it answers at all, changes a row of db.webhook (failure counter, active
\* flag, last-delivery timestamp) or adds a row to db.webhookDelivery; with
\* no dispatch made, both tables are after the test as they were before.
C18_TestLeavesNoTrace ==
  /\ [][test' # test =>
          /\ webhook' = webhook
          /\ webhookDelivery' = webhookDelivery]_vars
  /\ [](test.pc = "done" /\ dispatched = 0 =>
          /\ webhookDelivery = EmptyBag
          /\ \A w \in WebhookIds :
               /\ webhook[w].isActive
               /\ webhook[w].lastDeliveryAt = NullInt
               /\ webhook[w].failureCount \in StartCounts)

\* A test of w1, which stood at 9 failures, got a non-2xx answer: w1 still
\* stands at 9, is active, and has no DeliveryRecord.
C18_Witness ==
  /\ test.pc = "done"
  /\ test.webhookId = "w1"
  /\ test.statusCode = 300
  /\ ~test.success
  /\ dispatched = 0
  /\ webhook["w1"].failureCount = 9
  /\ webhook["w1"].isActive
  /\ webhook["w1"].lastDeliveryAt = NullInt
  /\ webhookDelivery = EmptyBag

(***************************************************************************)
(* Properties of createApiKey and revokeApiKey (CredentialSpec)            *)
(***************************************************************************)
\* C19: no createApiKey or revokeApiKey call raises because the audit entry
\* could not be written, and every createApiKey call that stored a key
\* returns the stored record with the raw secret.
C19_AuditFailureSwallowed ==
  /\ [](\A a \in aborted : a.cause # "createAuditLog")
  /\ [][Len(apiKey') > Len(apiKey) =>
          \E k \in issued' \ issued :
            /\ k.id = Len(apiKey')
            /\ Sha256(k.key) = apiKey'[k.id].key]_vars

\* C20: no stored credential has an empty name or an empty scope list.
C20_EmptyNameOrScopesRejected ==
  \A i \in 1 .. Len(apiKey) :
    apiKey[i].name # "" /\ apiKey[i].scopes # <<>>

\* C21: the step that stores a Credential stores of its secret only the
\* one-way hash and the display prefix, at most 12 characters that are not
\* the secret; no display prefix or scope stored is a secret generated so
\* far; the audit entry of the issuance holds the name, the scopes and the
\* expiry only, and every other audit entry no value at all; the value
\* createApiKey returns carries the secret; and no later step changes the
\* hash, the prefix or the scopes stored.
C21_SecretNeverPersisted ==
  [][/\ Len(apiKey') > Len(apiKey)
          => LET n == Len(apiKey')
                 raw == RawSecret(n)
             IN  /\ apiKey'[n].key = Sha256(raw)
                 /\ apiKey'[n].keyPrefix = Substring0(raw, KeyPrefixLen)
                 /\ Len(apiKey'[n].keyPrefix) <= KeyPrefixLen
                 /\ \A i, j \in 1 .. n :
                      /\ apiKey'[j].keyPrefix # RawSecret(i)
                      /\ \A k \in 1 .. Len(apiKey'[j].scopes) :
                           apiKey'[j].scopes[k] # RawSecret(i)
                 /\ \A x \in issued' \ issued : x.id = n /\ x.key = raw
     /\ \A i \in 1 .. Len(apiKey) :
          /\ apiKey'[i].key = apiKey[i].key
          /\ apiKey'[i].keyPrefix = apiKey[i].keyPrefix
          /\ apiKey'[i].scopes = apiKey[i].scopes
     /\ issued' # issued => Len(apiKey') > Len(apiKey)
     /\ auditLog' # auditLog
          => \A a \in BagToSet(auditLog') :
               CopiesIn(a, auditLog') # CopiesIn(a, auditLog)
                 => IF a.action = "api_key.created"
                      THEN a.newValue = <<apiKey'[a.entityId].name,
                                          apiKey'[a.entityId].scopes,
                                          apiKey'[a.entityId].expiresAt>>
                      ELSE a.newValue = <<>>]_vars

\* A credential was issued: its secret is longer than the display prefix
\* stored, and the issuance has its audit entry.
C21_Witness ==
  \E x \in issued :
    /\ Len(x.key) > KeyPrefixLen
    /\ apiKey[x.id].keyPrefix = SubSeq(x.key, 1, KeyPrefixLen)
    /\ \E a \in BagToSet(auditLog) :
         a.action = "api_key.created" /\ a.entityId = x.id

\* C28: a revokeApiKey call deactivates a credential, or writes an
\* 'api_key.deleted' entry for it, only when it is made for the tenant that
\* owns the credential; made for another tenant it raises and leaves the
\* credentials and the audit log as they are.
C28_RevokeOnlyOwnCredential ==
  [][/\ \A i \in 1 .. Len(apiKey) :
          /\ apiKey[i].isActive /\ ~apiKey'[i].isActive
               => \/ \E a \in RevocationsOf(auditLog', i) :
                       /\ a.organizationId = apiKey[i].organizationId
                       /\ CopiesIn(a, auditLog') = CopiesIn(a, auditLog) + 1
                  \/ \E a \in aborted' :
                       /\ a.operation = "revokeApiKey"
                       /\ a.cause = "createAuditLog"
                       /\ a.entityId = i
                       /\ a.organizationId = apiKey[i].organizationId
          /\ \A a \in RevocationsOf(auditLog', i) :
               a.organizationId = apiKey[i].organizationId
     /\ \A a \in aborted' \ aborted :
          a.cause = "db.apiKey.update"
            => /\ apiKey' = apiKey
               /\ auditLog' = auditLog
               /\ \A i \in 1 .. Len(apiKey) :
                    i = a.entityId
                      => apiKey[i].organizationId # a.organizationId]_vars

\* revokeApiKey was called for a tenant with the id of a credential of
\* another tenant: the call raised, the credential is active and no
\* 'api_key.deleted' entry exists.
C28_Witness ==
  \E a \in aborted :
    /\ a.operation = "revokeApiKey"
    /\ a.cause = "db.apiKey.update"
    /\ a.entityId \in 1 .. Len(apiKey)
    /\ apiKey[a.entityId].organizationId # a.organizationId
    /\ apiKey[a.entityId].isActive
    /\ RevocationsOf(auditLog, a.entityId) = {}

(***************************************************************************)
(* Properties of sequential dispatch (specification SequentialSpec)        *)
(***************************************************************************)
\* The deliveries to w recorded as failed.
FailuresOf(w) ==
  SumCopies({d \in RecordsOf(w) : ~d.success}, webhookDelivery)

\* C23: a webhook that started active at counter 0 and whose deliveries,
\* made by triggerWebhooks calls one after the other, have all failed is
\* active as long as fewer than 10 are recorded, and is inactive once the
\* call that made the tenth has returned.
C23_DisabledAtTenthFailure ==
  \A w \in WebhookIds :
    (\A d \in RecordsOf(w) : ~d.success)
      => /\ FailuresOf(w) < FailureThreshold => webhook[w].isActive
         /\ FailuresOf(w) >= FailureThreshold /\ call[1].pc \in {"idle", "done"}
              => /\ ~webhook[w].isActive
                 /\ FailuresOf(w) = FailureThreshold

\* Ten failed deliveries to w1 and no other are recorded, the calls have
\* returned, and w1 is inactive.
C23_Witness ==
  /\ call[1].pc \in {"idle", "done"}
  /\ FailuresOf("w1") = FailureThreshold
  /\ DeliveriesOf("w1", webhookDelivery) = FailureThreshold
  /\ dispatched = FailureThreshold
  /\ ~webhook["w1"].isActive

====
